---- MODULE Spec2Model ----
(***************************************************************************)
(* xyaml: a YAML configuration transformer (src/src/main.rs).              *)
(*                                                                         *)
(* The model follows main(): config() decodes the command line, the input  *)
(* is read and parsed, the replacement requests are applied one by one by  *)
(* update_value, substitute_env walks the document, the document is        *)
(* written, and the optional exec child is spawned.                        *)
(*                                                                         *)
(* serde_yaml::Value is modelled as a record [k, v]: k is the variant and  *)
(* v its payload (a sequence of values for a Sequence, a sequence of       *)
(* <<key, value>> pairs in insertion order for a Mapping).  A `&mut Value` *)
(* into the document is modelled as a location: the sequence of child      *)
(* positions leading from the root to the node.  Tagged values are not     *)
(* modelled.  `idx as usize` is taken on a 64-bit target, where it loses   *)
(* nothing.                                                                *)
(***************************************************************************)
EXTENDS Integers, Sequences, FiniteSets, TLC

VARIABLES
    pc,        \* position of main(): config, read, replace, subst, emit, exec, done, failed
    argv,      \* the command line as clap hands it to config()
    env,       \* the process environment: variable name -> value
    input,     \* the text read from --input or stdin
    config,    \* the Config built by config()
    yaml,      \* `yaml` of main(): the document being transformed
    idx,       \* position of the `for (path, value)` loop of main()
    todo,      \* pending calls of do_substitute_env (the recursion's stack)
    output,    \* what has been written to --output or stdout
    spawned,   \* whether the exec child has been spawned
    err,       \* which fail!() ended the run ("" while none has)
    log,       \* history: one record per update_value call and one for the substitution pass
    visited    \* history: the locations do_substitute_env has been called on

vars == <<pc, argv, env, input, config, yaml, idx, todo, output, spawned, err, log, visited>>

(***************************************************************************)
(* Bounds of the model.                                                    *)
(***************************************************************************)
MaxReplacements == 2   \* --set occurrences on one command line
MaxRepeat == 2         \* how often one request is repeated when update_value is checked alone

(***************************************************************************)
(* serde_yaml::Value                                                       *)
(***************************************************************************)
Null == [k |-> "null", v |-> "~"]
YBool(b) == [k |-> "bool", v |-> b]
YInt(n) == [k |-> "int", v |-> n]
YFloat(s) == [k |-> "float", v |-> s]
YStr(s) == [k |-> "str", v |-> s]
YSeq(xs) == [k |-> "seq", v |-> xs]
YMap(es) == [k |-> "map", v |-> es]

Ok(x) == [ok |-> TRUE, val |-> x]
ParseError == [ok |-> FALSE, val |-> Null]

(***************************************************************************)
(* serde_yaml::from_str, tabulated on the YAML texts the model uses.  Any  *)
(* other text is outside the model.  '{{FOO}}' in quotes is the string     *)
(* {{FOO}}; the unquoted {{FOO}} is a flow mapping whose key is the flow   *)
(* mapping {FOO: null}.                                                    *)
(***************************************************************************)
from_str(s) ==
    CASE s = "5" -> Ok(YInt(5))
      [] s = "6" -> Ok(YInt(6))
      [] s = "99" -> Ok(YInt(99))
      [] s = "null" -> Ok(Null)
      [] s = "false" -> Ok(YBool(FALSE))
      [] s = "hello" -> Ok(YStr("hello"))
      [] s = "FOO" -> Ok(YStr("FOO"))
      [] s = "a" -> Ok(YStr("a"))
      [] s = "[1, 2]" -> Ok(YSeq(<<YInt(1), YInt(2)>>))
      [] s = "{c: null}" -> Ok(YMap(<< <<YStr("c"), Null>> >>))
      [] s = "{a: b}" -> Ok(YMap(<< <<YStr("a"), YStr("b")>> >>))
      [] s = "'{{FOO}}'" -> Ok(YStr("{{FOO}}"))
      [] s = "{{FOO}}" -> Ok(YMap(<< <<YMap(<< <<YStr("FOO"), Null>> >>), Null>> >>))
      [] s = "['{{BAR}}']" -> Ok(YSeq(<<YStr("{{BAR}}")>>))
      [] s = "{k: '{{FOO}}'}" -> Ok(YMap(<< <<YStr("k"), YStr("{{FOO}}")>> >>))
      [] s = "{'{{FOO}}': 1}" -> Ok(YMap(<< <<YStr("{{FOO}}"), YInt(1)>> >>))
      [] s = "[a" -> ParseError
      \* documents
      [] s = "{a: {b: [1, 2, 3]}}" ->
            Ok(YMap(<< <<YStr("a"),
                  YMap(<< <<YStr("b"), YSeq(<<YInt(1), YInt(2), YInt(3)>>)>> >>)>> >>))
      [] s = "{a: null}" -> Ok(YMap(<< <<YStr("a"), Null>> >>))
      [] s = "{a: null, f: false, z: 0, e: '', s: [], m: {}}" ->
            Ok(YMap(<< <<YStr("a"), Null>>, <<YStr("f"), YBool(FALSE)>>, <<YStr("z"), YInt(0)>>,
                          <<YStr("e"), YStr("")>>, <<YStr("s"), YSeq(<<>>)>>,
                          <<YStr("m"), YMap(<<>>)>> >>))
      [] s = "{1: [y], 0: x}" ->
            Ok(YMap(<< <<YInt(1), YSeq(<<YStr("y")>>)>>, <<YInt(0), YStr("x")>> >>))
      [] s = "{[-1]: x, [x]: y, [0, 1]: w, zz: 1}" ->
            Ok(YMap(<< <<YSeq(<<YInt(-1)>>), YStr("x")>>,
                          <<YSeq(<<YStr("x")>>), YStr("y")>>,
                          <<YSeq(<<YInt(0), YInt(1)>>), YStr("w")>>,
                          <<YStr("zz"), YInt(1)>> >>))
      [] s = "[1, [2, 3]]" -> Ok(YSeq(<<YInt(1), YSeq(<<YInt(2), YInt(3)>>)>>))
      [] s = "{a: '{{FOO}}', b: 'x{{FOO}}y'}" ->
            Ok(YMap(<< <<YStr("a"), YStr("{{FOO}}")>>, <<YStr("b"), YStr("x{{FOO}}y")>> >>))
      [] s = "{'{{FOO}}': '{{BAR}}', n: 7}" ->
            Ok(YMap(<< <<YStr("{{FOO}}"), YStr("{{BAR}}")>>, <<YStr("n"), YInt(7)>> >>))
      [] s = "[true, ['{{FOO}}', '{{NOPE}}']]" ->
            Ok(YSeq(<<YBool(TRUE), YSeq(<<YStr("{{FOO}}"), YStr("{{NOPE}}")>>)>>))
      \* path specifications
      [] s = "[]" -> Ok(YSeq(<<>>))
      [] s = "[a]" -> Ok(YSeq(<<YStr("a")>>))
      [] s = "[a, b]" -> Ok(YSeq(<<YStr("a"), YStr("b")>>))
      [] s = "[a, c]" -> Ok(YSeq(<<YStr("a"), YStr("c")>>))
      [] s = "[a, b, [1]]" -> Ok(YSeq(<<YStr("a"), YStr("b"), YSeq(<<YInt(1)>>)>>))
      [] s = "[a, b, [3]]" -> Ok(YSeq(<<YStr("a"), YStr("b"), YSeq(<<YInt(3)>>)>>))
      [] s = "[b]" -> Ok(YSeq(<<YStr("b")>>))
      [] s = "[f]" -> Ok(YSeq(<<YStr("f")>>))
      [] s = "[z]" -> Ok(YSeq(<<YStr("z")>>))
      [] s = "[e]" -> Ok(YSeq(<<YStr("e")>>))
      [] s = "[s]" -> Ok(YSeq(<<YStr("s")>>))
      [] s = "[m]" -> Ok(YSeq(<<YStr("m")>>))
      [] s = "[n]" -> Ok(YSeq(<<YStr("n")>>))
      [] s = "[0]" -> Ok(YSeq(<<YInt(0)>>))
      [] s = "[[0]]" -> Ok(YSeq(<<YSeq(<<YInt(0)>>)>>))
      [] s = "[[1], [0]]" -> Ok(YSeq(<<YSeq(<<YInt(1)>>), YSeq(<<YInt(0)>>)>>))
      [] s = "[[1], [2]]" -> Ok(YSeq(<<YSeq(<<YInt(1)>>), YSeq(<<YInt(2)>>)>>))
      [] s = "[a, [0]]" -> Ok(YSeq(<<YStr("a"), YSeq(<<YInt(0)>>)>>))
      [] s = "[zz]" -> Ok(YSeq(<<YStr("zz")>>))
      [] s = "[[0, 1]]" -> Ok(YSeq(<<YSeq(<<YInt(0), YInt(1)>>)>>))
      [] s = "[a, []]" -> Ok(YSeq(<<YStr("a"), YSeq(<<>>)>>))
      [] s = "[zz, [0, 1]]" -> Ok(YSeq(<<YStr("zz"), YSeq(<<YInt(0), YInt(1)>>)>>))
      [] s = "[[7], [0, 1]]" ->
            Ok(YSeq(<<YSeq(<<YInt(7)>>), YSeq(<<YInt(0), YInt(1)>>)>>))
      [] s = "[[-1]]" -> Ok(YSeq(<<YSeq(<<YInt(-1)>>)>>))
      [] s = "[[x]]" -> Ok(YSeq(<<YSeq(<<YStr("x")>>)>>))
      [] s = "[[1.5]]" -> Ok(YSeq(<<YSeq(<<YFloat("1.5")>>)>>))
      [] s = "[[true]]" -> Ok(YSeq(<<YSeq(<<YBool(TRUE)>>)>>))
      [] s = "[[~]]" -> Ok(YSeq(<<YSeq(<<Null>>)>>))
      [] s = "[[[0]]]" -> Ok(YSeq(<<YSeq(<<YSeq(<<YInt(0)>>)>>)>>))
      [] s = "[zz, [-1]]" -> Ok(YSeq(<<YStr("zz"), YSeq(<<YInt(-1)>>)>>))
      [] OTHER -> ParseError

(***************************************************************************)
(* Locations: a `&mut Value` inside the document.                          *)
(***************************************************************************)
\* The child of obj at position p: element p of a Sequence, the value of
\* entry p of a Mapping.
Child(obj, p) == IF obj.k = "map" THEN obj.v[p][2] ELSE obj.v[p]

\* The node a location refers to.
RECURSIVE Deref(_, _)
Deref(obj, loc) ==
    IF loc = <<>> THEN obj ELSE Deref(Child(obj, Head(loc)), Tail(loc))

\* Faulty variant of Assign: the siblings after the path are lost.
RECURSIVE AssignDropRest(_, _, _)
AssignDropRest(obj, loc, new) ==
    IF loc = <<>> THEN new
    ELSE LET p == Head(loc)
             sub == AssignDropRest(Child(obj, p), Tail(loc), new)
         IN  IF obj.k = "map"
             THEN [obj EXCEPT !.v = Append(SubSeq(obj.v, 1, p - 1), <<obj.v[p][1], sub>>)]
             ELSE [obj EXCEPT !.v = Append(SubSeq(obj.v, 1, p - 1), sub)]

\* `*current_obj = new`: the document with the node at loc overwritten.
RECURSIVE Assign(_, _, _)
Assign(obj, loc, new) ==
    IF loc = <<>> THEN new
    ELSE LET p == Head(loc)
             sub == Assign(Child(obj, p), Tail(loc), new)
         IN  IF obj.k = "map"
             THEN [obj EXCEPT !.v[p] = <<@[1], sub>>]
             ELSE [obj EXCEPT !.v[p] = sub]

\* Mapping::get_mut(key): the position of the entry whose key equals `key`,
\* 0 for None.
MapPos(es, key) ==
    IF \E i \in 1..Len(es) : es[i][1] = key
    THEN CHOOSE i \in 1..Len(es) : es[i][1] = key
    ELSE 0

\* Value::get_mut(usize): serde_yaml indexes a Sequence by position and a
\* Mapping by the key Number(index); anything else gives None (0 here).
get_mut_usize(obj, n) ==
    CASE obj.k = "seq" -> IF n < Len(obj.v) THEN n + 1 ELSE 0
      [] obj.k = "map" -> MapPos(obj.v, YInt(n))
      [] OTHER -> 0

\* Value::get_mut(&Value): only a Mapping has entries to look up.
get_mut_value(obj, key) ==
    IF obj.k = "map" THEN MapPos(obj.v, key) ELSE 0

\* Value::is_u64
is_u64(v) == v.k = "int" /\ v.v >= 0

\* Faulty variant of is_null: every "empty" value counts as null.
is_null_falsy(v) ==
    \/ v.k = "null"
    \/ v.k = "bool" /\ v.v = FALSE
    \/ v.k = "int" /\ v.v = 0
    \/ v.k = "str" /\ v.v = ""
    \/ v.k \in {"seq", "map"} /\ v.v = <<>>

\* Value::is_null
is_null(v) == v.k = "null"

(***************************************************************************)
(* update_value                                                            *)
(***************************************************************************)
Found(p) == [err |-> "", pos |-> p]
NotFound(e) == [err |-> e, pos |-> 0]

\* Faulty variant of ResolveSegment: a sequence of several elements is
\* indexed by its first element.
ResolveSegmentFirstIndex(current, segment) ==
    IF segment.k = "seq"
    THEN IF Len(segment.v) = 0 THEN NotFound("UnsupportedPath")
         ELSE LET i == segment.v[1] IN
              IF ~is_u64(i) THEN NotFound("InvalidIndex")
              ELSE LET p == get_mut_usize(current, i.v) IN
                   IF p = 0 THEN NotFound("PathNotFound") ELSE Found(p)
    ELSE LET p == get_mut_value(current, segment) IN
         IF p = 0 THEN NotFound("PathNotFound") ELSE Found(p)

\* Faulty variant of ResolveSegment: a one-element sequence that holds no
\* index is looked up as a key.
ResolveSegmentKeyFallback(current, segment) ==
    IF segment.k = "seq" /\ (Len(segment.v) # 1 \/ is_u64(segment.v[1]))
    THEN IF Len(segment.v) # 1 THEN NotFound("UnsupportedPath")
         ELSE LET p == get_mut_usize(current, segment.v[1].v) IN
              IF p = 0 THEN NotFound("PathNotFound") ELSE Found(p)
    ELSE LET p == get_mut_value(current, segment) IN
         IF p = 0 THEN NotFound("PathNotFound") ELSE Found(p)

\* One iteration of the `for segment in segments` loop: the child of
\* `current` the segment selects, or the fail!() it ends in.
ResolveSegment(current, segment) ==
    IF segment.k = "seq"
    THEN IF Len(segment.v) # 1 THEN NotFound("UnsupportedPath")
         ELSE LET i == segment.v[1] IN
              IF ~is_u64(i) THEN NotFound("InvalidIndex")
              ELSE LET p == get_mut_usize(current, i.v) IN
                   IF p = 0 THEN NotFound("PathNotFound") ELSE Found(p)
    ELSE LET p == get_mut_value(current, segment) IN
         IF p = 0 THEN NotFound("PathNotFound") ELSE Found(p)

\* The segment loop from segment n on, `loc` being current_obj: the location
\* reached after the last segment, or the first failure.
RECURSIVE Walk(_, _, _, _)
Walk(obj, segments, n, loc) ==
    IF n > Len(segments) THEN [err |-> "", loc |-> loc]
    ELSE LET r == ResolveSegment(Deref(obj, loc), segments[n]) IN
         IF r.err # "" THEN [err |-> r.err, loc |-> loc]
         ELSE Walk(obj, segments, n + 1, Append(loc, r.pos))

\* Faulty variant of Overwrite: the node is written before require_null is
\* checked.
OverwriteBeforeChecks(obj, loc, new_value, require_null) ==
    LET v == from_str(new_value)
        written == IF v.ok THEN Assign(obj, loc, v.val) ELSE obj
    IN  IF require_null /\ ~is_null(Deref(obj, loc))
        THEN [err |-> "PreconditionFailed", obj |-> written]
        ELSE IF ~v.ok THEN [err |-> "InvalidValue", obj |-> obj]
        ELSE [err |-> "", obj |-> written]

\* The end of update_value: the require_null check, the parse of the new
\* value, the overwrite.  The result is the document as the call leaves it.
Overwrite(obj, loc, new_value, require_null) ==
    IF require_null /\ ~is_null(Deref(obj, loc))
    THEN [err |-> "PreconditionFailed", obj |-> obj]
    ELSE LET v == from_str(new_value) IN
         IF ~v.ok THEN [err |-> "InvalidValue", obj |-> obj]
         ELSE [err |-> "", obj |-> Assign(obj, loc, v.val)]

update_value(obj, path, new_value, require_null) ==
    LET segments == from_str(path) IN
    IF ~segments.ok THEN [err |-> "MalformedPath", obj |-> obj]
    ELSE IF segments.val.k # "seq" THEN [err |-> "MalformedPath", obj |-> obj]
    ELSE LET w == Walk(obj, segments.val.v, 1, <<>>) IN
         IF w.err # "" THEN [err |-> w.err, obj |-> obj]
         ELSE Overwrite(obj, w.loc, new_value, require_null)

(***************************************************************************)
(* config()                                                                *)
(***************************************************************************)
\* std::env::var
getenv(e, name) ==
    IF name \in DOMAIN e THEN [ok |-> TRUE, val |-> e[name]] ELSE [ok |-> FALSE, val |-> ""]

starts_with(a, prefix) == Len(a) >= Len(prefix) /\ SubSeq(a, 1, Len(prefix)) = prefix
ends_with(a, suffix) ==
    Len(a) >= Len(suffix) /\ SubSeq(a, Len(a) - Len(suffix) + 1, Len(a)) = suffix

\* The variable an exec argument names, "" when it has not the shape {{NAME}}.
IsExecPlaceholder(a) == starts_with(a, "{{") /\ ends_with(a, "}}")
ExecVar(a) == SubSeq(a, 3, Len(a) - 2)

\* substitute_exec_args: every argument of the shape {{NAME}} becomes the raw
\* value of NAME; the first undefined NAME ends the run.
substitute_exec_args(e, args) ==
    IF \E i \in 1..Len(args) : IsExecPlaceholder(args[i]) /\ ~getenv(e, ExecVar(args[i])).ok
    THEN [ok |-> FALSE, val |-> <<>>]
    ELSE [ok |-> TRUE,
          val |-> [i \in 1..Len(args) |->
                     IF IsExecPlaceholder(args[i])
                     THEN getenv(e, ExecVar(args[i])).val
                     ELSE args[i]]]

NoConfig ==
    [require_null |-> FALSE, replacements |-> <<>>, env_substitutions |-> <<>>,
     exec |-> FALSE, subst_args_from_env |-> FALSE, exec_args |-> <<>>]

\* config(): with --env-values every VALUE is replaced by the variable it
\* names; the exec subcommand's arguments are substituted here, before main()
\* has read any input.
config_of(a, e) ==
    LET replacements ==
            [i \in 1..Len(a.replacements) |->
                IF a.env_values
                THEN <<a.replacements[i][1], getenv(e, a.replacements[i][2]).val>>
                ELSE a.replacements[i]]
        args == SubSeq(a.cmd, 2, Len(a.cmd))
        exec_args == IF a.subst_args_with_env
                     THEN substitute_exec_args(e, args)
                     ELSE [ok |-> TRUE, val |-> args]
        base == [require_null |-> a.require_null, replacements |-> replacements,
                 env_substitutions |-> a.env_substitutions,
                 exec |-> FALSE, subst_args_from_env |-> FALSE, exec_args |-> <<>>]
    IN  IF a.env_values
           /\ \E i \in 1..Len(a.replacements) : ~getenv(e, a.replacements[i][2]).ok
        THEN [err |-> "MissingEnvVar", cfg |-> NoConfig]
        ELSE IF ~a.exec THEN [err |-> "", cfg |-> base]
        ELSE IF a.cmd = <<>> THEN [err |-> "Panic", cfg |-> NoConfig]
        ELSE IF ~exec_args.ok THEN [err |-> "ExecMissingEnvVar", cfg |-> NoConfig]
        ELSE [err |-> "",
              cfg |-> [base EXCEPT !.exec = TRUE,
                                   !.subst_args_from_env = a.subst_args_with_env,
                                   !.exec_args = exec_args.val]]

(***************************************************************************)
(* substitute_env / do_substitute_env                                      *)
(***************************************************************************)
\* Faulty variant of Token: the braces of the format string not doubled.
TokenSingleBrace(v) == "{" \o v \o "}"

\* format!("{{{{{}}}}}", v)
Token(v) == "{{" \o v \o "}}"

\* The placeholder table of substitute_env: token -> variable name.
VarsTable(names) ==
    [t \in {Token(names[i]) : i \in 1..Len(names)} |->
        CHOOSE v \in {names[i] : i \in 1..Len(names)} : Token(v) = t]

\* The locations of the children of the node at loc, in iteration order.
ChildLocs(obj, loc) == [p \in 1..Len(Deref(obj, loc).v) |-> Append(loc, p)]

(***************************************************************************)
(* The runs the model explores.                                            *)
(***************************************************************************)
RECURSIVE SeqsUpTo(_, _)
SeqsUpTo(S, n) ==
    IF n = 0 THEN {<<>>}
    ELSE LET shorter == SeqsUpTo(S, n - 1) IN
         shorter \cup {Append(s, x) : s \in shorter, x \in S}

Inputs ==
    {"{a: null}", "{a: '{{FOO}}', b: 'x{{FOO}}y'}", "{'{{FOO}}': '{{BAR}}', n: 7}",
     "'{{FOO}}'", "[true, ['{{FOO}}', '{{NOPE}}']]", "[a"}

Requests ==
    {<<"[a]", "{c: null}">>, <<"[a, c]", "'{{FOO}}'">>, <<"[a]", "5">>,
     <<"[n]", "FOO">>, <<"[b]", "{k: '{{FOO}}'}">>}

Environments ==
    {[n \in {"FOO"} |-> "hello"],
     [n \in {"FOO", "BAR"} |-> IF n = "FOO" THEN "'{{FOO}}'" ELSE "5"],
     [n \in {"FOO", "BAR"} |-> IF n = "FOO" THEN "['{{BAR}}']" ELSE "'{{FOO}}'"],
     [n \in {"FOO", "BAR"} |-> IF n = "FOO" THEN "[a" ELSE "{'{{FOO}}': 1}"],
     [n \in {"FOO", "BAR"} |-> IF n = "FOO" THEN "{{FOO}}" ELSE "6"]}

Commands ==
    {<<>>, <<"echo">>, <<"echo", "{{FOO}}">>, <<"echo", "{{NOPE}}", "x">>,
     <<"echo", "a{{FOO}}">>}

\* Command lines without the exec subcommand.
TransformLines ==
    [require_null : BOOLEAN, env_values : BOOLEAN,
     replacements : SeqsUpTo(Requests, MaxReplacements),
     env_substitutions : {<<>>, <<"FOO">>, <<"FOO", "BAR">>},
     exec : {FALSE}, subst_args_with_env : {FALSE}, cmd : {<<>>}]

\* Command lines with the exec subcommand.
ExecLines ==
    [require_null : {FALSE}, env_values : {FALSE},
     replacements : SeqsUpTo(Requests, 1),
     env_substitutions : {<<>>, <<"FOO">>},
     exec : {TRUE}, subst_args_with_env : BOOLEAN, cmd : Commands]

NoOutput == [written |-> FALSE, doc |-> Null]

Init ==
    /\ pc = "config"
    /\ argv \in TransformLines \cup ExecLines
    /\ env \in Environments
    /\ input \in Inputs
    /\ config = NoConfig
    /\ yaml = Null
    /\ idx = 0
    /\ todo = <<>>
    /\ output = NoOutput
    /\ spawned = FALSE
    /\ err = ""
    /\ log = <<>>
    /\ visited = <<>>

(***************************************************************************)
(* main()                                                                  *)
(***************************************************************************)
Fail(e) == pc' = "failed" /\ err' = e

\* let config = config();
Config ==
    /\ pc = "config"
    /\ LET r == config_of(argv, env) IN
       IF r.err # ""
       THEN Fail(r.err) /\ UNCHANGED config
       ELSE pc' = "read" /\ config' = r.cfg /\ UNCHANGED err
    /\ UNCHANGED <<argv, env, input, yaml, idx, todo, output, spawned, log, visited>>

\* The input is read (the file or stdin may fail) and parsed.
ReadInput ==
    /\ pc = "read"
    /\ \E io_ok \in BOOLEAN :
         LET r == from_str(input) IN
         IF ~io_ok THEN Fail("InputIO") /\ UNCHANGED <<yaml, idx>>
         ELSE IF ~r.ok THEN Fail("ParseInput") /\ UNCHANGED <<yaml, idx>>
         ELSE pc' = "replace" /\ yaml' = r.val /\ idx' = 1 /\ UNCHANGED err
    /\ UNCHANGED <<argv, env, input, config, todo, output, spawned, log, visited>>

LogEntry(op, path, value, require_null, before, after, e) ==
    [op |-> op, path |-> path, value |-> value, require_null |-> require_null,
     before |-> before, after |-> after, err |-> e]

\* One iteration of `for (path, value) in config.replacements`.
Replace ==
    /\ pc = "replace"
    /\ idx <= Len(config.replacements)
    /\ LET path == config.replacements[idx][1]
           value == config.replacements[idx][2]
           r == update_value(yaml, path, value, config.require_null)
       IN  /\ yaml' = r.obj
           /\ log' = Append(log, LogEntry("set", path, value, config.require_null,
                                          yaml, r.obj, r.err))
           /\ IF r.err # ""
              THEN Fail(r.err) /\ UNCHANGED idx
              ELSE idx' = idx + 1 /\ UNCHANGED <<pc, err>>
    /\ UNCHANGED <<argv, env, input, config, todo, output, spawned, visited>>

\* Faulty variant of SubstituteEnv: the pass starts inside the loop.
SubstituteEnvEarly ==
    /\ pc = "replace"
    /\ idx > 1
    /\ pc' = "subst"
    /\ todo' = << <<>> >>
    /\ log' = Append(log, LogEntry("subst", "", "", FALSE, yaml, yaml, ""))
    /\ UNCHANGED <<argv, env, input, config, yaml, idx, output, spawned, err, visited>>

\* substitute_env: after the loop, the table is built and do_substitute_env
\* is called on the root.
SubstituteEnv ==
    /\ pc = "replace"
    /\ idx > Len(config.replacements)
    /\ pc' = "subst"
    /\ todo' = << <<>> >>
    /\ log' = Append(log, LogEntry("subst", "", "", FALSE, yaml, yaml, ""))
    /\ UNCHANGED <<argv, env, input, config, yaml, idx, output, spawned, err, visited>>

\* Faulty variant of DoSubstituteEnv: the value just substituted is scanned
\* again.
DoSubstituteEnvRescan ==
    /\ pc = "subst"
    /\ todo # <<>>
    /\ LET loc == Head(todo)
           obj == Deref(yaml, loc)
           table == VarsTable(config.env_substitutions)
       IN  /\ visited' = Append(visited, loc)
           /\ IF obj.k \in {"map", "seq"}
              THEN /\ todo' = ChildLocs(yaml, loc) \o Tail(todo)
                   /\ UNCHANGED <<yaml, pc, err>>
              ELSE IF obj.k = "str" /\ obj.v \in DOMAIN table
              THEN LET new_value == getenv(env, table[obj.v])
                       parsed == from_str(new_value.val)
                   IN  IF ~new_value.ok THEN Fail("MissingEnvVar") /\ UNCHANGED <<yaml, todo>>
                       ELSE IF ~parsed.ok THEN Fail("InvalidValue") /\ UNCHANGED <<yaml, todo>>
                       ELSE /\ yaml' = Assign(yaml, loc, parsed.val)
                            /\ todo' = todo
                            /\ UNCHANGED <<pc, err>>
              ELSE todo' = Tail(todo) /\ UNCHANGED <<yaml, pc, err>>
    /\ UNCHANGED <<argv, env, input, config, idx, output, spawned, log>>

\* One call of do_substitute_env, on the node at the top of the stack: a
\* Mapping or Sequence pushes the calls on its children, a string that is a
\* key of the table is overwritten by the parsed value of its variable, and
\* any other node is left alone.  The call on a node it has overwritten
\* returns without looking at the new value.
DoSubstituteEnv ==
    /\ pc = "subst"
    /\ todo # <<>>
    /\ LET loc == Head(todo)
           obj == Deref(yaml, loc)
           table == VarsTable(config.env_substitutions)
       IN  /\ visited' = Append(visited, loc)
           /\ IF obj.k \in {"map", "seq"}
              THEN /\ todo' = ChildLocs(yaml, loc) \o Tail(todo)
                   /\ UNCHANGED <<yaml, pc, err>>
              ELSE IF obj.k = "str" /\ obj.v \in DOMAIN table
              THEN LET new_value == getenv(env, table[obj.v])
                       parsed == from_str(new_value.val)
                   IN  IF ~new_value.ok THEN Fail("MissingEnvVar") /\ UNCHANGED <<yaml, todo>>
                       ELSE IF ~parsed.ok THEN Fail("InvalidValue") /\ UNCHANGED <<yaml, todo>>
                       ELSE /\ yaml' = Assign(yaml, loc, parsed.val)
                            /\ todo' = Tail(todo)
                            /\ UNCHANGED <<pc, err>>
              ELSE todo' = Tail(todo) /\ UNCHANGED <<yaml, pc, err>>
    /\ UNCHANGED <<argv, env, input, config, idx, output, spawned, log>>

\* The outermost do_substitute_env call has returned.
SubstituteEnvReturn ==
    /\ pc = "subst"
    /\ todo = <<>>
    /\ pc' = "emit"
    /\ UNCHANGED <<argv, env, input, config, yaml, idx, todo, output, spawned, err, log, visited>>

\* The document is serialized and written to the output file or stdout;
\* opening or writing the file may fail.
Emit ==
    /\ pc = "emit"
    /\ \E io_ok \in BOOLEAN :
         IF ~io_ok THEN Fail("OutputIO") /\ UNCHANGED output
         ELSE /\ output' = [written |-> TRUE, doc |-> yaml]
              /\ pc' = IF config.exec THEN "exec" ELSE "done"
              /\ UNCHANGED err
    /\ UNCHANGED <<argv, env, input, config, yaml, idx, todo, spawned, log, visited>>

\* The exec child is spawned and waited for; the spawn may fail.
Exec ==
    /\ pc = "exec"
    /\ \E spawn_ok \in BOOLEAN :
         IF ~spawn_ok THEN Fail("Spawn") /\ UNCHANGED spawned
         ELSE spawned' = TRUE /\ pc' = "done" /\ UNCHANGED err
    /\ UNCHANGED <<argv, env, input, config, yaml, idx, todo, output, log, visited>>

Next ==
    \/ Config
    \/ ReadInput
    \/ Replace
    \/ SubstituteEnv
    \/ DoSubstituteEnv
    \/ SubstituteEnvReturn
    \/ Emit
    \/ Exec

Spec == Init /\ [][Next]_vars

(***************************************************************************)
(* update_value on its own: main() at its replacement loop, with one       *)
(* request repeated, over a wider choice of documents, paths and values.   *)
(***************************************************************************)
UpdateDocs ==
    {"{a: {b: [1, 2, 3]}}", "{a: null}", "{a: null, f: false, z: 0, e: '', s: [], m: {}}",
     "{1: [y], 0: x}", "{[-1]: x, [x]: y, [0, 1]: w, zz: 1}", "[1, [2, 3]]"}

UpdatePaths ==
    {"[]", "[a]", "[a, b]", "[a, c]", "[a, b, [1]]", "[a, b, [3]]", "[f]", "[z]", "[e]",
     "[s]", "[m]", "[0]", "[[0]]", "[[1], [0]]", "[[1], [2]]", "[a, [0]]", "[zz]",
     "[[0, 1]]", "[a, []]", "[zz, [0, 1]]", "[[7], [0, 1]]", "[[-1]]", "[[x]]", "[[1.5]]",
     "[[true]]", "[[~]]", "[[[0]]]", "[zz, [-1]]", "a", "{a: b}", "[a"}

UpdateValues == {"5", "99", "null", "false", "[1, 2]", "{c: null}", "[a"}

NoEnvironment == [n \in {} |-> ""]

InitUpdate ==
    /\ pc = "replace"
    /\ input \in UpdateDocs
    /\ yaml = from_str(input).val
    /\ \E path \in UpdatePaths, value \in UpdateValues, require_null \in BOOLEAN :
         /\ argv = [require_null |-> require_null, env_values |-> FALSE,
                    replacements |-> [i \in 1..MaxRepeat |-> <<path, value>>],
                    env_substitutions |-> <<>>,
                    exec |-> FALSE, subst_args_with_env |-> FALSE, cmd |-> <<>>]
         /\ config = config_of(argv, NoEnvironment).cfg
    /\ env = NoEnvironment
    /\ idx = 1
    /\ todo = <<>>
    /\ output = NoOutput
    /\ spawned = FALSE
    /\ err = ""
    /\ log = <<>>
    /\ visited = <<>>

NextUpdate == Replace

SpecUpdate == InitUpdate /\ [][NextUpdate]_vars

(***************************************************************************)
(* Vocabulary of the properties.                                           *)
(***************************************************************************)
SetEntries == {i \in 1..Len(log) : log[i].op = "set"}
SubstEntries == {i \in 1..Len(log) : log[i].op = "subst"}

WellFormedPath(path) == from_str(path).ok /\ from_str(path).val.k = "seq"
Segments(path) == from_str(path).val.v

\* The path resolves in doc, and the location it then addresses.
Resolves(doc, path) ==
    WellFormedPath(path) /\ Walk(doc, Segments(path), 1, <<>>).err = ""
Target(doc, path) == Walk(doc, Segments(path), 1, <<>>).loc

\* doc2 is doc but for the node at loc: every node on the way has the same
\* variant, the same length, the same keys in the same order and the same
\* other children.
RECURSIVE SameExcept(_, _, _)
SameExcept(doc, doc2, loc) ==
    IF loc = <<>> THEN TRUE
    ELSE LET p == Head(loc) IN
         /\ doc2.k = doc.k
         /\ Len(doc2.v) = Len(doc.v)
         /\ \A i \in 1..Len(doc.v) : i # p => doc2.v[i] = doc.v[i]
         /\ doc.k = "map" => doc2.v[p][1] = doc.v[p][1]
         /\ SameExcept(Child(doc, p), Child(doc2, p), Tail(loc))

\* Every location of a document.
RECURSIVE Locs(_)
Locs(obj) ==
    {<<>>} \cup
    IF obj.k \in {"map", "seq"}
    THEN UNION {{<<p>> \o l : l \in Locs(Child(obj, p))} : p \in 1..Len(obj.v)}
    ELSE {}

Declared == {config.env_substitutions[i] : i \in 1..Len(config.env_substitutions)}

\* A string whose whole text is {{NAME}} for a declared NAME.
IsPlaceholder(obj) == obj.k = "str" /\ \E name \in Declared : obj.v = "{{" \o name \o "}}"
PlaceholderName(obj) == CHOOSE name \in Declared : obj.v = "{{" \o name \o "}}"

\* post is pre with exactly the placeholders in value position replaced.
RECURSIVE Substituted(_, _)
Substituted(pre, post) ==
    CASE pre.k = "map" ->
           /\ post.k = "map"
           /\ Len(post.v) = Len(pre.v)
           /\ \A i \in 1..Len(pre.v) :
                post.v[i][1] = pre.v[i][1] /\ Substituted(pre.v[i][2], post.v[i][2])
      [] pre.k = "seq" ->
           /\ post.k = "seq"
           /\ Len(post.v) = Len(pre.v)
           /\ \A i \in 1..Len(pre.v) : Substituted(pre.v[i], post.v[i])
      [] IsPlaceholder(pre) ->
           /\ PlaceholderName(pre) \in DOMAIN env
           /\ post = from_str(env[PlaceholderName(pre)]).val
      [] OTHER -> post = pre

PassDone == pc \in {"emit", "exec", "done"} \/ (pc = "failed" /\ err \in {"OutputIO", "Spawn"})
PreSubst == log[Len(log)].before

(***************************************************************************)
(* Properties of update_value (checked under SpecUpdate).                  *)
(***************************************************************************)
ExampleDoc == from_str("{a: {b: [1, 2, 3]}}").val
ExampleResult ==
    YMap(<< <<YStr("a"), YMap(<< <<YStr("b"), YSeq(<<YInt(1), YInt(99), YInt(3)>>)>> >>)>> >>)

\* C1: a replacement without require_null, at a path that resolves and with
\* a value that parses, succeeds; afterwards the node the path addresses is
\* the parsed value and every node not at or below it is as before (same
\* entries, same key order, same sequence lengths).  On {a: {b: [1,2,3]}},
\* path [a, b, [1]] and value 99 it gives {a: {b: [1,99,3]}}.
C1_FrameEffect ==
    \A i \in SetEntries :
        LET e == log[i] IN
        /\ (~e.require_null /\ Resolves(e.before, e.path) /\ from_str(e.value).ok) =>
              /\ e.err = ""
              /\ Deref(e.after, Target(e.before, e.path)) = from_str(e.value).val
              /\ SameExcept(e.before, e.after, Target(e.before, e.path))
        /\ (~e.require_null /\ e.before = ExampleDoc /\ e.path = "[a, b, [1]]"
               /\ e.value = "99") => e.after = ExampleResult

C1_Witness ==
    /\ log # <<>>
    /\ log[1].err = ""
    /\ ~log[1].require_null
    /\ log[1].before = ExampleDoc
    /\ log[1].path = "[a, b, [1]]"
    /\ log[1].after # log[1].before

\* C2: whenever an update_value call fails, for whatever reason, the
\* document is what it was immediately before the call.
C2_FailureLeavesDocument ==
    /\ \A i \in SetEntries : log[i].err # "" => log[i].after = log[i].before
    /\ (pc = "failed" /\ log # <<>> /\ log[Len(log)].op = "set") =>
            yaml = log[Len(log)].before

C2_Witness ==
    /\ pc = "failed"
    /\ log # <<>>
    /\ log[Len(log)].err = "PreconditionFailed"
    /\ Resolves(log[Len(log)].before, log[Len(log)].path)
    /\ from_str(log[Len(log)].value).ok
    /\ from_str(log[Len(log)].value).val # Deref(yaml, Target(yaml, log[Len(log)].path))

\* C4: with require_null, a call whose path resolves overwrites the target
\* exactly when the target is Null in the document the call is made on
\* (the value parsing); on any other target, false, 0, "", [] and {}
\* included, it fails with PreconditionFailed and changes nothing; so the
\* same request with a non-null value fails when repeated on its own result.
C4_RequireNull ==
    \A i \in SetEntries :
        LET e == log[i] IN
        e.require_null =>
          /\ e.err = "" =>
                /\ Resolves(e.before, e.path)
                /\ Deref(e.before, Target(e.before, e.path)).k = "null"
          /\ (Resolves(e.before, e.path)
                /\ Deref(e.before, Target(e.before, e.path)).k # "null") =>
                (e.err = "PreconditionFailed" /\ e.after = e.before)
          /\ (Resolves(e.before, e.path)
                /\ Deref(e.before, Target(e.before, e.path)).k = "null"
                /\ from_str(e.value).ok) =>
                /\ e.err = ""
                /\ Deref(e.after, Target(e.before, e.path)) = from_str(e.value).val
          /\ (i > 1 /\ log[i - 1].op = "set" /\ log[i - 1].err = ""
                /\ log[i - 1].path = e.path /\ log[i - 1].value = e.value
                /\ from_str(e.value).val.k # "null") =>
                (e.err = "PreconditionFailed" /\ e.after = e.before)

C4_Witness ==
    /\ Len(log) = 2
    /\ log[1].require_null
    /\ log[1].err = ""
    /\ log[1].value = "false"
    /\ log[2].err = "PreconditionFailed"

\* An Index Segment: a one-element sequence holding a non-negative integer.
IsIndexSegment(segment) ==
    segment.k = "seq" /\ Len(segment.v) = 1 /\ segment.v[1].k = "int" /\ segment.v[1].v >= 0

\* The walk of the path over doc comes to segment n.
Reaches(doc, path, n) == Walk(doc, SubSeq(Segments(path), 1, n - 1), 1, <<>>).err = ""
CurrentAt(doc, path, n) ==
    Deref(doc, Walk(doc, SubSeq(Segments(path), 1, n - 1), 1, <<>>).loc)

\* C6: an Index Segment [N] resolved against a node that is not a sequence
\* (whatever it holds), or against a sequence of length <= N, makes
\* update_value fail with PathNotFound, the document unchanged.
C6_IndexNeedsSequence ==
    \A i \in SetEntries :
        LET e == log[i] IN
        (/\ WellFormedPath(e.path)
         /\ \E n \in 1..Len(Segments(e.path)) :
              /\ IsIndexSegment(Segments(e.path)[n])
              /\ Reaches(e.before, e.path, n)
              /\ \/ CurrentAt(e.before, e.path, n).k # "seq"
                 \/ Len(CurrentAt(e.before, e.path, n).v) <= Segments(e.path)[n].v[1].v)
        => (e.err = "PathNotFound" /\ e.after = e.before)

\* A segment that is a sequence of a length other than 1.
IsMultiSegment(segment) == segment.k = "seq" /\ Len(segment.v) # 1
HasMultiSegment(path) ==
    WellFormedPath(path) /\ \E n \in 1..Len(Segments(path)) : IsMultiSegment(Segments(path)[n])
FirstMultiSegment(path) ==
    CHOOSE n \in 1..Len(Segments(path)) :
        /\ IsMultiSegment(Segments(path)[n])
        /\ \A m \in 1..(n - 1) : ~IsMultiSegment(Segments(path)[m])

\* C7 as claimed: a path with a segment that is a sequence of a length other
\* than 1 fails with UnsupportedPath on every document.
C7_UnsupportedOnEveryDocument ==
    \A i \in SetEntries :
        HasMultiSegment(log[i].path) => log[i].err = "UnsupportedPath"

\* C7 as amended: such a path fails on every document and changes nothing;
\* the failure is UnsupportedPath when every segment before the first such
\* segment resolves, and otherwise it is the failure of the first earlier
\* segment that does not resolve.
C7_UnsupportedWhenReached ==
    \A i \in SetEntries :
        LET e == log[i] IN
        HasMultiSegment(e.path) =>
          LET n == FirstMultiSegment(e.path)
              before == Walk(e.before, SubSeq(Segments(e.path), 1, n - 1), 1, <<>>)
          IN  /\ e.err # ""
              /\ e.after = e.before
              /\ before.err = "" => e.err = "UnsupportedPath"
              /\ before.err # "" =>
                    (e.err = before.err /\ e.err \in {"PathNotFound", "InvalidIndex"})

C7_Witness ==
    /\ log # <<>>
    /\ log[1].path = "[zz, [0, 1]]"
    /\ log[1].err = "UnsupportedPath"
    /\ Resolves(log[1].before, "[zz]")

\* A one-element sequence whose element is not a non-negative integer.
IsBadIndexSegment(segment) ==
    /\ segment.k = "seq"
    /\ Len(segment.v) = 1
    /\ ~(segment.v[1].k = "int" /\ segment.v[1].v >= 0)
HasBadIndexSegment(path) ==
    WellFormedPath(path)
    /\ \E n \in 1..Len(Segments(path)) : IsBadIndexSegment(Segments(path)[n])

\* C8: a path with a one-element sequence segment whose element is not a
\* non-negative integer always fails and changes nothing: the segment is
\* neither used as an index nor looked up as a mapping key, even in a
\* mapping that has that very sequence as a key.
C8_BadIndexFails ==
    \A i \in SetEntries :
        LET e == log[i] IN
        HasBadIndexSegment(e.path) =>
          /\ e.err # ""
          /\ e.after = e.before
          /\ (\E n \in 1..Len(Segments(e.path)) :
                /\ IsBadIndexSegment(Segments(e.path)[n])
                /\ \A m \in 1..(n - 1) : Segments(e.path)[m].k # "seq"
                /\ Reaches(e.before, e.path, n)) => e.err = "InvalidIndex"

C8_Witness ==
    /\ log # <<>>
    /\ log[1].path = "[[-1]]"
    /\ log[1].before.k = "map"
    /\ MapPos(log[1].before.v, YSeq(<<YInt(-1)>>)) # 0
    /\ pc = "failed"
    /\ err = "InvalidIndex"

(***************************************************************************)
(* Properties of a whole run (checked under Spec).                         *)
(***************************************************************************)
\* C3: the replacement requests are applied one at a time in the order
\* given, each on the document the previous one left; the substitution pass
\* runs once, after the last of them, on the document they left, and no
\* replacement follows it; the document written is that document with its
\* placeholders substituted.
C3_Ordering ==
    /\ \A i \in SetEntries :
          /\ \A j \in 1..(i - 1) : log[j].op = "set" /\ log[j].err = ""
          /\ i <= Len(config.replacements)
          /\ <<log[i].path, log[i].value>> = config.replacements[i]
          /\ log[i].before = IF i = 1 THEN from_str(input).val ELSE log[i - 1].after
    /\ \A i \in SubstEntries :
          /\ i = Len(config.replacements) + 1
          /\ i = Len(log)
          /\ \A j \in 1..(i - 1) : log[j].op = "set" /\ log[j].err = ""
          /\ log[i].before = IF i = 1 THEN from_str(input).val ELSE log[i - 1].after
    /\ pc \in {"subst", "emit", "exec", "done"} => Cardinality(SubstEntries) = 1
    /\ output.written => (SubstEntries # {} /\ Substituted(PreSubst, output.doc))

C3_Witness ==
    /\ pc = "done"
    /\ Len(log) = 3
    /\ ~Resolves(from_str(input).val, log[2].path)
    /\ IsPlaceholder(from_str(log[2].value).val)
    /\ output.doc # PreSubst
    /\ output.doc = YMap(<< <<YStr("a"), YMap(<< <<YStr("c"), YStr("hello")>> >>)>> >>)

\* C5: when the substitution pass is over, the document is the one it
\* started from with exactly the string scalars in value position whose
\* whole text is {{NAME}}, NAME declared, replaced by the parsed value of
\* the environment variable NAME; keys, other strings and other scalars are
\* as they were.
C5_Substitution ==
    PassDone => (SubstEntries # {} /\ Substituted(PreSubst, yaml))

C5_Witness ==
    /\ pc = "done"
    /\ PreSubst = from_str("{a: '{{FOO}}', b: 'x{{FOO}}y'}").val
    /\ yaml = YMap(<< <<YStr("a"), YStr("hello")>>, <<YStr("b"), YStr("x{{FOO}}y")>> >>)

\* C9 as claimed: a failure of the exec subcommand (an undefined variable
\* named by an exec argument, a spawn that fails) happens only after the
\* document has been written, and the child is not spawned before that.
ExecFailures == {"ExecMissingEnvVar", "Spawn"}
C9_ExecFailsAfterOutput ==
    /\ (pc = "failed" /\ err \in ExecFailures) => output.written
    /\ spawned => output.written

\* The placeholders in the document the pass started from.
PlaceholderLocs(doc) == {l \in Locs(doc) : IsPlaceholder(Deref(doc, l))}
HasPlaceholder(doc) == PlaceholderLocs(doc) # {}

\* C10: the substitution pass calls do_substitute_env at most once per node
\* of the document it started from and on nothing else, so it makes no more
\* calls than that document has nodes; a placeholder inside a substituted
\* value is still there when the pass is over.
C10_OnePass ==
    (SubstEntries # {}) =>
        /\ \A i, j \in 1..Len(visited) : visited[i] = visited[j] => i = j
        /\ \A i \in 1..Len(visited) : visited[i] \in Locs(PreSubst)
        /\ Len(visited) <= Cardinality(Locs(PreSubst))
        /\ pc = "subst" => Len(todo) + Len(visited) <= Cardinality(Locs(PreSubst))
        /\ PassDone =>
              \A l \in PlaceholderLocs(PreSubst) :
                  Deref(yaml, l) = from_str(env[PlaceholderName(Deref(PreSubst, l))]).val

C10_Witness ==
    /\ pc = "done"
    /\ HasPlaceholder(PreSubst)
    /\ HasPlaceholder(yaml)
    /\ \E l \in PlaceholderLocs(PreSubst) : HasPlaceholder(Deref(yaml, l))

====
